---- MODULE Spec2Model ----
(***************************************************************************)
(* Voice Sampler: the terminal session of main.py and the reactive form of *)
(* app.py, as one state machine.  A behaviour runs one of the two          *)
(* programs (variable flow).                                               *)
(*                                                                         *)
(* Texts are sequences of characters, so that str.strip() and " ".join()   *)
(* are computed.  Numbers entered for the voice settings are counted in    *)
(* hundredths (0.75 is 75).  The bytes the synthesis provider returns are  *)
(* a record: the serial number of the provider call that returned them     *)
(* and the arguments of that call.                                         *)
(***************************************************************************)
EXTENDS Integers, Sequences, FiniteSets, TLC

VARIABLES
    flow,             \* which program runs: "terminal" (main.py) or "reactive" (app.py)
    api_key,          \* whether ELEVENLABS_API_KEY is set
    argv,             \* sys.argv[1:]
    pc,               \* position of main(): start, gen, retry, menu, exited
    exit_cause,       \* how main() ended
    phrase,           \* main.py phrase
    current_voice,    \* main.py current_voice
    settings,         \* main.py settings
    generation_count, \* main.py generation_count
    temp_dir,         \* whether the directory made by mkdtemp exists
    audio_path,       \* the file temp_dir/output.mp3: <<>> or <<bytes>>
    recordings,       \* the recordings directory: the set of its files
    announced,        \* generation numbers printed since the phrase was set
    synth_calls,      \* calls of text_to_speech.convert so far
    ui_page,          \* app.py: how far the latest script run got
    ui_phrase,        \* app.py phrase (the text area)
    ui_voice,         \* app.py selected_voice (the select box): <<>> or <<label>>
    ui_settings,      \* app.py stability, similarity, style, speed (the sliders)
    audio_data,       \* st.session_state.audio_data: <<>> or <<bytes>>
    last_phrase,      \* st.session_state.last_phrase: <<>> or <<text>>
    voices_cache,     \* the st.cache_data entry of get_voices: <<>> or <<voices>>
    event             \* the latest input and what happened to it

termVars == <<argv, pc, exit_cause, phrase, current_voice, settings,
              generation_count, temp_dir, audio_path, announced>>

appVars == <<ui_page, ui_phrase, ui_voice, ui_settings, audio_data,
             last_phrase, voices_cache>>

vars == <<flow, api_key, argv, pc, exit_cause, phrase, current_voice, settings,
          generation_count, temp_dir, audio_path, recordings, announced,
          synth_calls, appVars, event>>

----------------------------------------------------------------------------
(* Bounds *)

\* Provider synthesis calls in one behaviour.
MaxCalls == 2

----------------------------------------------------------------------------
(* Texts *)

\* The texts typed at the phrase prompts, before strip().
PhraseInputs == {<<>>, <<" ">>, <<" ", "a", " ">>}

\* The texts typed in the text area of app.py.
PhraseTyped == {<<>>, <<" ">>, <<" ", "a", " ">>}

\* The texts typed in the filename field of app.py.
SaveTyped == {<<>>, <<" ", " ">>, <<"t", " ">>}

\* The texts typed at the "Save as" prompt, before strip().
SaveInputs == {<<>>, <<" ", " ">>, <<"t", " ">>}

\* str.strip(): surrounding whitespace removed.
RECURSIVE LStrip(_)
LStrip(s) == IF s # <<>> /\ Head(s) = " " THEN LStrip(Tail(s)) ELSE s

RECURSIVE RStrip(_)
RStrip(s) ==
    IF s # <<>> /\ s[Len(s)] = " " THEN RStrip(SubSeq(s, 1, Len(s) - 1)) ELSE s

Strip(s) == RStrip(LStrip(s))

\* " ".join(args)
RECURSIVE Join(_)
Join(args) ==
    IF args = <<>> THEN <<>>
    ELSE IF Len(args) = 1 THEN args[1]
    ELSE args[1] \o <<" ">> \o Join(Tail(args))

\* The argument "--list-voices", one symbol of the model.
ListVoicesFlag == <<"--list-voices">>

\* The command lines tried.
Argvs ==
    {<<>>, <<ListVoicesFlag>>, << <<"b">> >>, << <<" ">>, <<>> >>}

----------------------------------------------------------------------------
(* Voices *)

\* voice = "bIHbv24MWmeRgasZH58o"
DefaultVoice == "bIHbv24MWmeRgasZH58o"

Voice(id, name, category) == [voice_id |-> id, name |-> name, category |-> category]

\* What voices.get_all() can return: the account's voices, in order.  The
\* second catalog holds two voices of the same name and category.
Catalogs ==
    { << Voice("v1", "Ann", "premade"), Voice("v2", "Bob", "cloned") >>,
      << Voice("v1", "Ann", "premade"), Voice("v2", "Bob", "cloned"),
         Voice("v3", "Ann", "premade") >> }

----------------------------------------------------------------------------
(* Numbers *)

\* Python's min(a, b) and max(a, b): the first argument unless the second
\* is strictly smaller (larger).
PyMin(a, b) == IF b < a THEN b ELSE a

PyMax(a, b) == IF b > a THEN b ELSE a

\* A variant that bounds the value from above only.
ClampUpperOnly(x) == PyMin(100, x)

\* max(0.0, min(1.0, x)), in hundredths.
Clamp(x) == PyMax(0, PyMin(100, x))

\* The texts typed at the three settings prompts, after strip(): nothing,
\* a text float() rejects, and numbers.
StabilityInputs == {"", "abc", "0.9", "1.7"}

SimilarityInputs == {"", "abc", "-0.3"}

StyleInputs == {"", "abc", "1.7"}

\* float(val), in hundredths; float() raises ValueError on the other texts.
FloatTable ==
    [s \in {"-0.3", "0.9", "1.7"} |->
        CASE s = "-0.3" -> -30
          [] s = "0.9" -> 90
          [] s = "1.7" -> 170]

IsFloat(s) == s \in DOMAIN FloatTable

\* The texts typed at the "Voice #:" prompt, after strip().  "SUP2" stands
\* for the superscript two (U+00B2): a digit to str.isdigit(), refused by
\* int().
VoiceInputs == {"", "x", "0", "1", "3", "4", "SUP2"}

\* str.isdigit()
IsDigit(s) == s \in {"0", "1", "3", "4", "SUP2"}

\* int(choice); int() raises ValueError on the other texts.
IntTable ==
    [s \in {"0", "1", "3", "4"} |->
        CASE s = "0" -> 0
          [] s = "1" -> 1
          [] s = "3" -> 3
          [] s = "4" -> 4]

IsInt(s) == s \in DOMAIN IntTable

\* The sliders of app.py: min_value, max_value and value, in hundredths.
Sliders ==
    [stability  |-> [min_value |-> 0,  max_value |-> 100, value |-> 50],
     similarity |-> [min_value |-> 0,  max_value |-> 100, value |-> 75],
     style      |-> [min_value |-> 0,  max_value |-> 100, value |-> 0],
     speed      |-> [min_value |-> 70, max_value |-> 120, value |-> 100]]

SliderDefaults == [f \in DOMAIN Sliders |-> Sliders[f].value]

\* The positions the sliders are dragged to.
SliderTried == {70}

\* A slider offers the positions between its min_value and max_value.
SliderPositions(f) ==
    {x \in SliderTried : Sliders[f].min_value <= x /\ x <= Sliders[f].max_value}

\* The sliders that are moved.
SlidersMoved == {"speed"}

----------------------------------------------------------------------------
(* Bytes *)

DefaultSettings == [stability |-> 50, similarity_boost |-> 75, style |-> 0]

\* The arguments of one text_to_speech.convert call.
CallArgs(text, voice, sett) == [text |-> text, voice |-> voice, settings |-> sett]

\* The bytes returned by provider call number n.
Bytes(n, args) == [id |-> n, args |-> args]

\* A file opened for writing and not written.
EmptyBytes == Bytes(0, CallArgs(<<>>, "", DefaultSettings))

\* event: the command, the texts typed with it, what came of it, the number
\* of voices.get_all calls made while handling it, whether the ttl of the
\* cached voices had passed, the number of voices select_voice listed, and
\* the arguments of the text_to_speech.convert call made while handling it
\* (<<>>: no call).
NoEvent == [op |-> "none", text |-> <<>>, choice |-> "", vals |-> <<"", "", "">>,
            outcome |-> "none", fetches |-> 0, expired |-> FALSE, listed |-> 0,
            call |-> <<>>]

Event(op, outcome) == [NoEvent EXCEPT !.op = op, !.outcome = outcome]

----------------------------------------------------------------------------
Init ==
    /\ flow \in {"terminal", "reactive"}
    /\ api_key \in BOOLEAN
    /\ argv \in (IF flow = "terminal" THEN Argvs ELSE {<<>>})
    /\ pc = "start"
    /\ exit_cause = "running"
    /\ phrase = <<>>
    /\ current_voice = DefaultVoice
    /\ settings = DefaultSettings
    /\ generation_count = 0
    /\ temp_dir = FALSE
    /\ audio_path = <<>>
    /\ recordings = {}
    /\ announced = <<>>
    /\ synth_calls = 0
    /\ ui_page = "unloaded"
    /\ ui_phrase = <<>>
    /\ ui_voice = <<>>
    /\ ui_settings = SliderDefaults
    /\ audio_data = <<>>
    /\ last_phrase = <<>>
    /\ voices_cache = <<>>
    /\ event = NoEvent

----------------------------------------------------------------------------
(* main.py: start of main() *)

\* sys.exit, or the end of main(), or an exception nobody catches.
Exit(cause) == pc' = "exited" /\ exit_cause' = cause

\* if audio_path.exists(): audio_path.unlink() ; os.rmdir(temp_dir)
Cleanup == audio_path' = <<>> /\ temp_dir' = FALSE

\* A variant that prints the error and goes on without sys.exit(1).
StartNoKeyGoesOn ==
    /\ flow = "terminal" /\ pc = "start" /\ ~api_key
    /\ temp_dir' = TRUE
    /\ pc' = "gen"
    /\ event' = Event("start", "no_key")
    /\ UNCHANGED <<flow, api_key, argv, exit_cause, phrase, current_voice,
                   settings, generation_count, audio_path, recordings, announced,
                   synth_calls, appVars>>

\* get_api_key() without ELEVENLABS_API_KEY: sys.exit(1).
StartNoKey ==
    /\ flow = "terminal" /\ pc = "start" /\ ~api_key
    /\ Exit("no_key")
    /\ event' = Event("start", "no_key")
    /\ UNCHANGED <<flow, api_key, argv, phrase, current_voice, settings,
                   generation_count, temp_dir, audio_path, recordings, announced,
                   synth_calls, appVars>>

\* --list-voices: list_voices(client), then sys.exit(0); get_all() may raise.
StartListVoices ==
    /\ flow = "terminal" /\ pc = "start" /\ api_key
    /\ Len(argv) > 0 /\ argv[1] = ListVoicesFlag
    /\ \E ok \in BOOLEAN :
        /\ Exit(IF ok THEN "listed" ELSE "uncaught")
        /\ event' = [Event("start", IF ok THEN "listed" ELSE "catalog_failed")
                        EXCEPT !.fetches = 1]
    /\ UNCHANGED <<flow, api_key, argv, phrase, current_voice, settings,
                   generation_count, temp_dir, audio_path, recordings, announced,
                   synth_calls, appVars>>

\* The phrase from the command line: " ".join(sys.argv[1:]), then mkdtemp.
StartArgv ==
    /\ flow = "terminal" /\ pc = "start" /\ api_key
    /\ Len(argv) > 0 /\ argv[1] # ListVoicesFlag
    /\ phrase' = Join(argv)
    /\ temp_dir' = TRUE
    /\ pc' = "gen"
    /\ event' = [Event("start", "phrase") EXCEPT !.text = Join(argv)]
    /\ UNCHANGED <<flow, api_key, argv, exit_cause, current_voice, settings,
                   generation_count, audio_path, recordings, announced,
                   synth_calls, appVars>>

\* The phrase from the prompt: input(...).strip(); empty: sys.exit(1).
StartPrompt ==
    /\ flow = "terminal" /\ pc = "start" /\ api_key
    /\ Len(argv) = 0
    /\ \E raw \in PhraseInputs :
        /\ phrase' = Strip(raw)
        /\ IF Strip(raw) = <<>>
           THEN /\ Exit("no_phrase")
                /\ event' = [Event("start", "no_phrase") EXCEPT !.text = raw]
                /\ UNCHANGED temp_dir
           ELSE /\ temp_dir' = TRUE
                /\ pc' = "gen"
                /\ event' = [Event("start", "phrase") EXCEPT !.text = raw]
                /\ UNCHANGED exit_cause
    /\ UNCHANGED <<flow, api_key, argv, current_voice, settings,
                   generation_count, audio_path, recordings, announced,
                   synth_calls, appVars>>

----------------------------------------------------------------------------
(* main.py: the generation at the top of the outer loop *)

\* A variant that calls generate_audio without settings=settings.
GenArgsDefaultSettings == CallArgs(phrase, current_voice, DefaultSettings)

\* The arguments generate_audio passes to text_to_speech.convert.
GenArgs == CallArgs(phrase, current_voice, settings)

\* generation_count += 1, then the provider call.
Attempt ==
    /\ flow = "terminal" /\ pc = "gen"
    /\ synth_calls < MaxCalls
    /\ generation_count' = generation_count + 1
    /\ synth_calls' = synth_calls + 1

\* convert succeeds, the bytes are written, the number is printed and
\* play_audio returns: on to the menu.
GenerateOk ==
    /\ Attempt
    /\ audio_path' = <<Bytes(synth_calls + 1, GenArgs)>>
    /\ announced' = Append(announced, generation_count + 1)
    /\ pc' = "menu"
    /\ event' = [Event("generate", "ok") EXCEPT !.call = <<GenArgs>>]
    /\ UNCHANGED <<flow, api_key, argv, exit_cause, phrase, current_voice,
                   settings, temp_dir, recordings, appVars>>

\* A variant that opens the file for writing before calling the provider.
GenerateSynthFailedTruncating ==
    /\ Attempt
    /\ audio_path' = <<EmptyBytes>>
    /\ pc' = "retry"
    /\ event' = [Event("generate", "synth_failed") EXCEPT !.call = <<GenArgs>>]
    /\ UNCHANGED <<flow, api_key, argv, exit_cause, phrase, current_voice,
                   settings, temp_dir, recordings, announced, appVars>>

\* convert (or reading its stream) raises: caught, "Try again?".
GenerateSynthFailed ==
    /\ Attempt
    /\ pc' = "retry"
    /\ event' = [Event("generate", "synth_failed") EXCEPT !.call = <<GenArgs>>]
    /\ UNCHANGED <<flow, api_key, argv, exit_cause, phrase, current_voice,
                   settings, temp_dir, audio_path, recordings, announced, appVars>>

\* open(audio_path, "wb") truncates, f.write raises: caught, "Try again?".
GenerateWriteFailed ==
    /\ Attempt
    /\ audio_path' = <<EmptyBytes>>
    /\ pc' = "retry"
    /\ event' = [Event("generate", "write_failed") EXCEPT !.call = <<GenArgs>>]
    /\ UNCHANGED <<flow, api_key, argv, exit_cause, phrase, current_voice,
                   settings, temp_dir, recordings, announced, appVars>>

\* The bytes are written and announced, play_audio raises (check=True):
\* caught by the same handler, "Try again?".
GeneratePlayFailed ==
    /\ Attempt
    /\ audio_path' = <<Bytes(synth_calls + 1, GenArgs)>>
    /\ announced' = Append(announced, generation_count + 1)
    /\ pc' = "retry"
    /\ event' = [Event("generate", "play_failed") EXCEPT !.call = <<GenArgs>>]
    /\ UNCHANGED <<flow, api_key, argv, exit_cause, phrase, current_voice,
                   settings, temp_dir, recordings, appVars>>

\* "Try again? [y/n]": y continues the outer loop, anything else breaks out
\* of it to the cleanup at the end of main().
Retry ==
    /\ flow = "terminal" /\ pc = "retry"
    /\ \E answer \in {"y", "n"} :
        /\ event' = [Event("retry", "ok") EXCEPT !.choice = answer]
        /\ IF answer = "y"
           THEN pc' = "gen" /\ UNCHANGED <<exit_cause, audio_path, temp_dir>>
           ELSE Exit("declined") /\ Cleanup
    /\ UNCHANGED <<flow, api_key, argv, phrase, current_voice, settings,
                   generation_count, recordings, announced, synth_calls,
                   appVars>>

----------------------------------------------------------------------------
(* main.py: the command menu (inner loop) *)

AtMenu == flow = "terminal" /\ pc = "menu"

\* An exception raised inside the inner loop: no handler encloses it, the
\* process ends with a traceback and the cleanup lines are not run.
Uncaught == Exit("uncaught") /\ UNCHANGED <<temp_dir, audio_path>>

\* [r]: break, the outer loop generates again.
CmdRegenerate ==
    /\ AtMenu
    /\ pc' = "gen"
    /\ event' = Event("r", "ok")
    /\ UNCHANGED <<flow, api_key, argv, exit_cause, phrase, current_voice,
                   settings, generation_count, temp_dir, audio_path, recordings,
                   announced, synth_calls, appVars>>

\* [p]: play_audio(str(audio_path)); subprocess.run(check=True) may raise.
CmdPlay ==
    /\ AtMenu
    /\ \E ok \in BOOLEAN :
        IF ok
        THEN /\ event' = Event("p", "ok")
             /\ UNCHANGED <<pc, exit_cause, temp_dir, audio_path>>
        ELSE /\ event' = Event("p", "play_failed")
             /\ Uncaught
    /\ UNCHANGED <<flow, api_key, argv, phrase, current_voice, settings,
                   generation_count, recordings, announced, synth_calls,
                   appVars>>

\* A variant that leaves an earlier <name>.mp3 in place beside the new one.
WriteRecordingKeepOld(dir, name, data) == dir \cup {[name |-> name, data |-> data]}

\* The recordings directory after writing data to <name>.mp3.
WriteRecording(dir, name, data) ==
    {f \in dir : f.name # name} \cup {[name |-> name, data |-> data]}

\* [s]: a non-empty name copies the transient file to recordings/<name>.mp3;
\* mkdir, open or write may raise.  An empty name does nothing.
CmdSave ==
    /\ AtMenu
    /\ \E raw \in SaveInputs, ok \in BOOLEAN :
        LET save_name == Strip(raw) IN
        IF save_name = <<>>
        THEN /\ ok
             /\ event' = [Event("s", "ignored") EXCEPT !.text = raw]
             /\ UNCHANGED <<pc, exit_cause, temp_dir, audio_path, recordings>>
        ELSE IF ok
        THEN /\ recordings' = WriteRecording(recordings, save_name, audio_path[1])
             /\ event' = [Event("s", "ok") EXCEPT !.text = raw]
             /\ UNCHANGED <<pc, exit_cause, temp_dir, audio_path>>
        ELSE /\ event' = [Event("s", "write_failed") EXCEPT !.text = raw]
             /\ Uncaught
             /\ UNCHANGED recordings
    /\ UNCHANGED <<flow, api_key, argv, phrase, current_voice, settings,
                   generation_count, announced, synth_calls, appVars>>

\* [n]: phrase = input(...).strip(); a non-empty phrase resets the count
\* and breaks to generate, an empty one prints "No phrase entered.".
CmdNewPhrase ==
    /\ AtMenu
    /\ \E raw \in PhraseInputs :
        /\ phrase' = Strip(raw)
        /\ IF Strip(raw) # <<>>
           THEN /\ generation_count' = 0
                /\ announced' = <<>>
                /\ pc' = "gen"
                /\ event' = [Event("n", "ok") EXCEPT !.text = raw]
           ELSE /\ event' = [Event("n", "no_phrase") EXCEPT !.text = raw]
                /\ UNCHANGED <<generation_count, announced, pc>>
    /\ UNCHANGED <<flow, api_key, argv, exit_cause, current_voice, settings,
                   temp_dir, audio_path, recordings, synth_calls, appVars>>

\* A variant without the lower bound on idx: voices[-1] is the last voice.
SelectVoiceNoLowerBound(voices, choice, current) ==
    IF choice # "" /\ IsDigit(choice)
    THEN LET idx == IntTable[choice] - 1 IN
         IF idx < Len(voices)
         THEN voices[IF idx < 0 THEN Len(voices) + 1 + idx ELSE idx + 1].voice_id
         ELSE current
    ELSE current

\* select_voice after the listing, for a choice int() accepts: the voice id
\* it returns.
SelectVoice(voices, choice, current) ==
    IF choice # "" /\ IsDigit(choice)
    THEN LET idx == IntTable[choice] - 1 IN
         IF 0 <= idx /\ idx < Len(voices)
         THEN voices[idx + 1].voice_id
         ELSE current
    ELSE current

\* [v]: current_voice = select_voice(client, current_voice), then break to
\* generate.  get_voices may raise, and so may int() on a choice that
\* isdigit() accepts.
CmdVoice ==
    /\ AtMenu
    /\ \E choice \in VoiceInputs :
        \/ /\ choice = ""
           /\ event' = [Event("v", "catalog_failed") EXCEPT !.fetches = 1]
           /\ Uncaught
           /\ UNCHANGED current_voice
        \/ \E voices \in Catalogs :
            IF choice # "" /\ IsDigit(choice) /\ ~IsInt(choice)
            THEN /\ event' = [Event("v", "value_error")
                                EXCEPT !.choice = choice, !.fetches = 1,
                                       !.listed = Len(voices)]
                 /\ Uncaught
                 /\ UNCHANGED current_voice
            ELSE /\ current_voice' = SelectVoice(voices, choice, current_voice)
                 /\ event' = [Event("v", "ok")
                                EXCEPT !.choice = choice, !.fetches = 1,
                                       !.listed = Len(voices)]
                 /\ pc' = "gen"
                 /\ UNCHANGED <<exit_cause, temp_dir, audio_path>>
    /\ UNCHANGED <<flow, api_key, argv, phrase, settings, generation_count,
                   recordings, announced, synth_calls, appVars>>

\* A variant that stores float(val or 0) without the test of val.
EditFieldEmptyIsZero(old, val) == IF val = "" THEN 0 ELSE Clamp(FloatTable[val])

\* One settings prompt: val = input(...).strip(); if val: clamp(float(val)).
EditField(old, val) == IF val = "" THEN old ELSE Clamp(FloatTable[val])

\* Whether float(val) raises at a settings prompt.
EditRaises(val) == val # "" /\ ~IsFloat(val)

\* [e]: the three prompts in order, then break to generate.  float() raises
\* ValueError on a text that is no number, after the earlier fields were
\* stored.
CmdEdit ==
    /\ AtMenu
    /\ \E v1 \in StabilityInputs, v2 \in SimilarityInputs, v3 \in StyleInputs :
        IF EditRaises(v1)
        THEN /\ v2 = "" /\ v3 = ""
             /\ event' = [Event("e", "value_error") EXCEPT !.vals = <<v1, v2, v3>>]
             /\ Uncaught
             /\ UNCHANGED settings
        ELSE IF EditRaises(v2)
        THEN /\ v3 = ""
             /\ settings' = [settings EXCEPT
                               !.stability = EditField(@, v1)]
             /\ event' = [Event("e", "value_error") EXCEPT !.vals = <<v1, v2, v3>>]
             /\ Uncaught
        ELSE IF EditRaises(v3)
        THEN /\ settings' = [settings EXCEPT
                               !.stability = EditField(@, v1),
                               !.similarity_boost = EditField(@, v2)]
             /\ event' = [Event("e", "value_error") EXCEPT !.vals = <<v1, v2, v3>>]
             /\ Uncaught
        ELSE /\ settings' = [settings EXCEPT
                               !.stability = EditField(@, v1),
                               !.similarity_boost = EditField(@, v2),
                               !.style = EditField(@, v3)]
             /\ event' = [Event("e", "ok") EXCEPT !.vals = <<v1, v2, v3>>]
             /\ pc' = "gen"
             /\ UNCHANGED <<exit_cause, temp_dir, audio_path>>
    /\ UNCHANGED <<flow, api_key, argv, phrase, current_voice, generation_count,
                   recordings, announced, synth_calls, appVars>>

\* [q]: the cleanup, then sys.exit(0).
CmdQuit ==
    /\ AtMenu
    /\ Exit("quit")
    /\ Cleanup
    /\ event' = Event("q", "ok")
    /\ UNCHANGED <<flow, api_key, argv, phrase, current_voice, settings,
                   generation_count, recordings, announced, synth_calls,
                   appVars>>

\* Any other input: "Invalid choice.", the menu asks again.
CmdInvalid ==
    /\ AtMenu
    /\ event' = Event("invalid", "ok")
    /\ UNCHANGED <<flow, api_key, argv, pc, exit_cause, phrase, current_voice,
                   settings, generation_count, temp_dir, audio_path, recordings,
                   announced, synth_calls, appVars>>

----------------------------------------------------------------------------
(* app.py: one script run per interaction *)

\* The label of a voice in the select box: f"{name} ({category})", which
\* tells apart two voices only by name and category.
Label(v) == <<v.name, v.category>>

\* voice_options[label]: a dict comprehension keeps the last voice of a label.
RECURSIVE OptionId(_, _)
OptionId(voices, label) ==
    IF Label(voices[Len(voices)]) = label
    THEN voices[Len(voices)].voice_id
    ELSE OptionId(SubSeq(voices, 1, Len(voices) - 1), label)

\* list(voice_options.keys())
OptionKeys(voices) == {Label(voices[i]) : i \in DOMAIN voices}

\* list(voice_options.keys())[0]: the select box's index=0.
FirstKey(voices) == Label(voices[1])

\* What voices.get_all() can return to a run: <<>> when it raises.
Fetched == {<<>>} \cup {<<c>> : c \in Catalogs}

\* get_voices(client) in a run: whether the ttl of the cache entry has
\* passed since it was stored, and the voices the run gets (<<>>: none, the
\* provider call raised).  Without an API key get_client() stops the run
\* before.
FetchChoices ==
    IF ~api_key THEN {[expired |-> FALSE, voices |-> <<>>]}
    ELSE IF voices_cache = <<>>
    THEN {[expired |-> FALSE, voices |-> v] : v \in Fetched}
    ELSE {[expired |-> FALSE, voices |-> voices_cache]}
         \cup {[expired |-> TRUE, voices |-> v] : v \in Fetched}

\* The provider calls get_voices makes in a run.
Fetches(f) == IF api_key /\ (voices_cache = <<>> \/ f.expired) THEN 1 ELSE 0

\* The run passes get_client() and get_voices(): the form is drawn.
Loaded(f) == api_key /\ f.voices # <<>>

\* The select box after a run that got voices v: the selection if its
\* label is still an option, else the first option.
Selected(v, sel) ==
    IF sel # <<>> /\ sel[1] \in OptionKeys(v[1]) THEN sel ELSE <<FirstKey(v[1])>>

\* Lines 86-154 of a run that does nothing else: client, voices, widgets.
Draw(f) ==
    /\ voices_cache' = f.voices
    /\ IF Loaded(f)
       THEN ui_page' = "form" /\ ui_voice' = Selected(f.voices, ui_voice)
       ELSE ui_page' = "stopped" /\ UNCHANGED ui_voice

\* What a run notes in event: what was done, what came of it, and the
\* provider calls of get_voices.
RunEvent(op, outcome, f) ==
    [Event(op, IF Loaded(f) THEN outcome
               ELSE IF api_key THEN "catalog_failed" ELSE "no_key")
        EXCEPT !.fetches = Fetches(f), !.expired = f.expired]

AtForm == flow = "reactive" /\ ui_page = "form"

\* The first run of a session, and a rerun of a page that stopped before
\* the form.
AppLoad ==
    /\ flow = "reactive" /\ ui_page \in {"unloaded", "stopped"}
    /\ \E f \in FetchChoices :
        /\ Draw(f)
        /\ event' = RunEvent("load", "ok", f)
    /\ UNCHANGED <<flow, api_key, termVars, recordings, synth_calls, ui_phrase,
                   ui_settings, audio_data, last_phrase>>

\* A slider is moved.
AppSlider ==
    /\ AtForm
    /\ \E fld \in SlidersMoved :
        \E x \in SliderPositions(fld) \ {ui_settings[fld]} :
            ui_settings' = [ui_settings EXCEPT ![fld] = x]
    /\ \E f \in FetchChoices :
        /\ Draw(f)
        /\ event' = RunEvent("widget", "ok", f)
    /\ UNCHANGED <<flow, api_key, termVars, recordings, synth_calls, ui_phrase,
                   audio_data, last_phrase>>

\* Another voice is picked in the select box, among the options the latest
\* run drew.
AppSelectVoice ==
    /\ AtForm
    /\ \E label \in OptionKeys(voices_cache[1]) \ {ui_voice[1]} :
        \E f \in FetchChoices :
            /\ voices_cache' = f.voices
            /\ IF Loaded(f)
               THEN ui_page' = "form" /\ ui_voice' = Selected(f.voices, <<label>>)
               ELSE ui_page' = "stopped" /\ ui_voice' = <<label>>
            /\ event' = RunEvent("widget", "ok", f)
    /\ UNCHANGED <<flow, api_key, termVars, recordings, synth_calls, ui_phrase,
                   ui_settings, audio_data, last_phrase>>

\* A phrase is typed in the text area.
AppPhrase ==
    /\ AtForm
    /\ \E raw \in PhraseTyped \ {ui_phrase} :
        /\ ui_phrase' = raw
        /\ \E f \in FetchChoices :
            /\ Draw(f)
            /\ event' = RunEvent("widget", "ok", f)
    /\ UNCHANGED <<flow, api_key, termVars, recordings, synth_calls, ui_settings,
                   audio_data, last_phrase>>

\* "Refresh Voices": the run reaches the button, get_voices.clear(),
\* st.rerun(), and the new run fetches the voices.
AppRefresh ==
    /\ AtForm
    /\ \E f \in FetchChoices :
        IF ~Loaded(f)
        THEN /\ Draw(f)
             /\ event' = RunEvent("refresh", "ok", f)
        ELSE \E g \in Fetched :
             /\ voices_cache' = g
             /\ IF g # <<>>
                THEN /\ ui_page' = "form"
                     /\ ui_voice' = Selected(g, Selected(f.voices, ui_voice))
                ELSE /\ ui_page' = "stopped"
                     /\ ui_voice' = Selected(f.voices, ui_voice)
             /\ event' = [Event("refresh", IF g # <<>> THEN "ok" ELSE "catalog_failed")
                             EXCEPT !.fetches = Fetches(f) + 1,
                                    !.expired = f.expired]
    /\ UNCHANGED <<flow, api_key, termVars, recordings, synth_calls, ui_phrase,
                   ui_settings, audio_data, last_phrase>>

\* The arguments app.py passes to text_to_speech.convert in a run that got
\* voices v.
AppArgs(v) ==
    CallArgs(Strip(ui_phrase), OptionId(v[1], Selected(v, ui_voice)[1]), ui_settings)

\* "Generate" or "Regenerate" (the same branch): a phrase that is empty
\* after strip() gets a warning, else the provider is called; its bytes are
\* stored, or its exception is shown.
AppGenerate ==
    /\ AtForm
    /\ \E f \in FetchChoices, ok \in BOOLEAN :
        /\ Draw(f)
        /\ IF ~Loaded(f)
           THEN /\ ok
                /\ event' = RunEvent("generate", "ok", f)
                /\ UNCHANGED <<audio_data, last_phrase, synth_calls>>
           ELSE IF Strip(ui_phrase) = <<>>
           THEN /\ ok
                /\ event' = RunEvent("generate", "warning", f)
                /\ UNCHANGED <<audio_data, last_phrase, synth_calls>>
           ELSE /\ synth_calls < MaxCalls
                /\ synth_calls' = synth_calls + 1
                /\ IF ok
                   THEN /\ audio_data' = <<Bytes(synth_calls + 1, AppArgs(f.voices))>>
                        /\ last_phrase' = <<Strip(ui_phrase)>>
                        /\ event' = [RunEvent("generate", "ok", f)
                                       EXCEPT !.call = <<AppArgs(f.voices)>>]
                   ELSE /\ event' = [RunEvent("generate", "synth_failed", f)
                                       EXCEPT !.call = <<AppArgs(f.voices)>>]
                        /\ UNCHANGED <<audio_data, last_phrase>>
    /\ UNCHANGED <<flow, api_key, termVars, recordings, ui_phrase, ui_settings>>

\* A name is typed in the filename field and "Save" is pressed, both drawn
\* only below an audio player: a name that is empty after strip() gets a
\* warning, else save_recording writes the bytes, or raises.
AppSave ==
    /\ AtForm /\ audio_data # <<>>
    /\ \E save_name \in SaveTyped, f \in FetchChoices, ok \in BOOLEAN :
        /\ Draw(f)
        /\ IF ~Loaded(f)
           THEN /\ ok
                /\ event' = [RunEvent("save", "ok", f) EXCEPT !.text = save_name]
                /\ UNCHANGED recordings
           ELSE IF Strip(save_name) = <<>>
           THEN /\ ok
                /\ event' = [RunEvent("save", "warning", f) EXCEPT !.text = save_name]
                /\ UNCHANGED recordings
           ELSE IF ok
           THEN /\ recordings' =
                       WriteRecording(recordings, Strip(save_name), audio_data[1])
                /\ event' = [RunEvent("save", "ok", f) EXCEPT !.text = save_name]
           ELSE /\ event' = [RunEvent("save", "write_failed", f)
                               EXCEPT !.text = save_name]
                /\ UNCHANGED recordings
    /\ UNCHANGED <<flow, api_key, termVars, synth_calls, ui_phrase, ui_settings,
                   audio_data, last_phrase>>

ReactiveNext ==
    \/ AppLoad
    \/ AppSlider
    \/ AppSelectVoice
    \/ AppPhrase
    \/ AppRefresh
    \/ AppGenerate
    \/ AppSave

----------------------------------------------------------------------------
TerminalNext ==
    \/ StartNoKey
    \/ StartListVoices
    \/ StartArgv
    \/ StartPrompt
    \/ GenerateOk
    \/ GenerateSynthFailed
    \/ GenerateWriteFailed
    \/ GeneratePlayFailed
    \/ Retry
    \/ CmdRegenerate
    \/ CmdPlay
    \/ CmdSave
    \/ CmdNewPhrase
    \/ CmdVoice
    \/ CmdEdit
    \/ CmdQuit
    \/ CmdInvalid

Next == TerminalNext \/ ReactiveNext

Spec == Init /\ [][Next]_vars

----------------------------------------------------------------------------
(* Properties *)

\* The state of the terminal session the commands act on.
sessionVars == <<phrase, current_voice, settings, generation_count, audio_path>>

\* C1: a generation attempt that fails while an artifact is staged puts the
\* session back at the command menu (the form, in app.py) with the same
\* artifact staged.
C1_FailedAttemptReturnsToReady ==
    [][(event'.op = "generate" /\ event'.outcome = "synth_failed")
        => /\ (flow = "terminal" /\ audio_path # <<>>)
                => (pc' = "menu" /\ audio_path' = audio_path)
           /\ (flow = "reactive" /\ audio_data # <<>>)
                => (ui_page' = "form" /\ audio_data' = audio_data)]_vars

\* C2: a synthesis call that fails while an artifact is staged leaves the
\* staged bytes (the transient file, session_state.audio_data) as they were.
C2_FailedSynthesisKeepsStagedBytes ==
    [][(event'.op = "generate" /\ event'.outcome = "synth_failed")
        => /\ (flow = "terminal" /\ audio_path # <<>>) => audio_path' = audio_path
           /\ (flow = "reactive" /\ audio_data # <<>>) => audio_data' = audio_data]_vars

\* C2 witness: a regeneration has just failed in the provider with an
\* artifact staged by an earlier generation.
C2_Witness ==
    /\ flow = "terminal" /\ pc = "retry"
    /\ event.op = "generate" /\ event.outcome = "synth_failed"
    /\ audio_path # <<>> /\ audio_path[1].id = 1
    /\ generation_count = 2

\* C3: the generation numbers announced for one phrase are 1, 2, 3, ... in
\* order.
C3_NumbersAnnouncedInOrder == \A i \in DOMAIN announced : announced[i] = i

\* C4: a new phrase that is empty after strip() changes nothing of the
\* session and leaves it at the menu.
C4_EmptyNewPhraseChangesNothing ==
    [][(event'.op = "n" /\ Strip(event'.text) = <<>>)
        => (pc' = "menu" /\ UNCHANGED sessionVars)]_vars

\* C5: the synthesis provider is never called with a phrase that is empty
\* after strip().
C5_NoCallWithEmptyPhrase ==
    event.call # <<>> => Strip(event.call[1].text) # <<>>

\* C6: once the transient directory was made, the process never ends with
\* the directory or the file in it still there.
C6_TransientRemovedAtExit ==
    (flow = "terminal" /\ pc = "exited") => (~temp_dir /\ audio_path = <<>>)

\* The artifact the session holds: <<>> or <<bytes>>.
Staged == IF flow = "terminal" THEN audio_path ELSE audio_data

\* Whether the (phrase, voice id, parameters) the session holds are args:
\* main.py holds its three variables; app.py holds last_phrase, the sliders
\* and the selected label, which names a voice id while the voices are
\* cached.
HoldsInputs(args) ==
    IF flow = "terminal"
    THEN CallArgs(phrase, current_voice, settings) = args
    ELSE /\ last_phrase = <<args.text>>
         /\ ui_settings = args.settings
         /\ (voices_cache # <<>> /\ ui_voice # <<>>)
                => OptionId(voices_cache[1], ui_voice[1]) = args.voice

\* C7: whenever the session holds an artifact, the (phrase, voice id,
\* parameters) it holds with it are the arguments of the synthesis call
\* that returned the artifact.
C7_ArtifactTraceableToInputs ==
    (Staged # <<>> /\ Staged[1] # EmptyBytes /\ pc # "exited")
        => HoldsInputs(Staged[1].args)

\* C8: a playback, catalog or write failure of a menu command leaves the
\* session at the menu with its state as before the command.
C8_MenuFailuresRecoverable ==
    [][(event'.op \in {"p", "s", "v"}
        /\ event'.outcome \in {"play_failed", "write_failed", "catalog_failed"})
        => (pc' = "menu" /\ UNCHANGED sessionVars)]_vars

\* A "Voice #:" input that names no listed voice: no number, 0, or a
\* number above the number of voices listed.
NamesNoVoice(choice, listed) ==
    /\ choice # ""
    /\ \/ ~IsInt(choice)
       \/ IntTable[choice] = 0
       \/ IntTable[choice] > listed

\* C9: a voice selection with 0, with a number above the number of listed
\* voices, or with no number leaves current_voice as it was.
C9_InvalidSelectionKeepsVoice ==
    [][(event'.op = "v" /\ NamesNoVoice(event'.choice, event'.listed))
        => current_voice' = current_voice]_vars

\* C9 witness: with a voice selected earlier, 0 was entered at a listing of
\* voices and the session went on to regenerate.
C9_Witness ==
    /\ event.op = "v" /\ event.outcome = "ok" /\ event.choice = "0"
    /\ event.listed > 0
    /\ current_voice = "v1"
    /\ pc = "gen"

\* clamp(x, lo, hi)
ClampTo(x, lo, hi) == IF x < lo THEN lo ELSE IF x > hi THEN hi ELSE x

SettingsFields == <<"stability", "similarity_boost", "style">>

\* Every stored parameter lies within its bound.
InBounds ==
    /\ \A i \in 1..3 : settings[SettingsFields[i]] \in 0..100
    /\ \A f \in DOMAIN Sliders :
        ui_settings[f] \in Sliders[f].min_value..Sliders[f].max_value

\* C10: an edit stores clamp(x, 0.0, 1.0) for every number x entered (up to
\* the first input that is no number), an edit given only numbers or
\* nothing does not raise, nothing but an edit changes the settings, and
\* every stored parameter lies within its bound.
C10_EditStoresClampedValue ==
    [][/\ InBounds'
       /\ settings' # settings => event'.op = "e"
       /\ event'.op = "e" =>
            /\ \A i \in 1..3 :
                (/\ IsFloat(event'.vals[i])
                 /\ \A j \in 1..(i - 1) : ~EditRaises(event'.vals[j]))
                    => settings'[SettingsFields[i]]
                         = ClampTo(FloatTable[event'.vals[i]], 0, 100)
            /\ (\A i \in 1..3 : ~EditRaises(event'.vals[i]))
                    => (event'.outcome = "ok" /\ pc' = "gen")]_vars

\* C10 witness: 1.7 was entered for stability and -0.3 for similarity, and
\* 1.0 and 0.0 are stored.
C10_Witness ==
    /\ event.op = "e" /\ event.outcome = "ok"
    /\ event.vals[1] = "1.7" /\ event.vals[2] = "-0.3"
    /\ settings.stability = 100 /\ settings.similarity_boost = 0

\* C11 as stated: after an edit of the settings no synthesis call is made
\* and the generation counter stays as it is until a regenerate is asked
\* for, so the step that follows an edit is never a generation attempt.
C11_EditDoesNotRegenerate ==
    [][event.op = "e"
        => (synth_calls' = synth_calls /\ generation_count' = generation_count)]_vars

\* C11 amended: the edit itself makes no synthesis call and leaves the
\* counter; in main.py a completed edit is followed, with no command in
\* between, by one generation attempt that passes the edited settings and
\* adds one to the counter, and whose artifact carries that number; in
\* app.py moving a widget makes no synthesis call and leaves the audio.
C11_EditThenOneAttemptWithEditedSettings ==
    [][/\ event'.op = "e"
            => /\ synth_calls' = synth_calls
               /\ generation_count' = generation_count
               /\ audio_path' = audio_path
               /\ event'.call = <<>>
               /\ event'.outcome = "ok" => pc' = "gen"
       /\ (event.op = "e" /\ event.outcome = "ok")
            => /\ event'.op = "generate"
               /\ event'.call = <<CallArgs(phrase, current_voice, settings)>>
               /\ synth_calls' = synth_calls + 1
               /\ generation_count' = generation_count + 1
               /\ event'.outcome = "ok"
                    => /\ audio_path'
                            = <<Bytes(synth_calls', CallArgs(phrase, current_voice, settings))>>
                       /\ announced' = Append(announced, generation_count + 1)
       /\ event'.op = "widget"
            => /\ synth_calls' = synth_calls
               /\ audio_data' = audio_data
               /\ event'.call = <<>>]_vars

\* C11 witness: from generation 1, stability was edited to 0.9 and the
\* attempt that followed staged the artifact numbered 2, synthesized with
\* stability 0.9.
C11_Witness ==
    /\ flow = "terminal" /\ pc = "menu"
    /\ event.op = "generate" /\ event.outcome = "ok"
    /\ announced = <<1, 2>>
    /\ generation_count = 2
    /\ audio_path[1].id = 2
    /\ audio_path[1].args.settings.stability = 90
    /\ settings.stability = 90

\* The state of the reactive session the buttons act on.
appSessionVars == <<ui_phrase, ui_voice, ui_settings, audio_data, last_phrase>>

\* C12: a save whose name is empty after strip() writes no file, leaves the
\* session at the menu (the form) with its state as it was, and shows a
\* message.
C12_EmptyNameSaveWarns ==
    [][(event'.op \in {"s", "save"} /\ Strip(event'.text) = <<>>)
        => /\ recordings' = recordings
           /\ flow = "terminal" => (pc' = "menu" /\ UNCHANGED sessionVars)
           /\ flow = "reactive" => UNCHANGED appSessionVars
           /\ event'.outcome \notin {"ignored", "ok"}]_vars

\* A save that was carried out: the name is not empty after strip() and the
\* write went through.
SaveDone(e) == e.op \in {"s", "save"} /\ e.outcome = "ok" /\ Strip(e.text) # <<>>

\* C13: the artifact the menu (the form) offers is the bytes of the latest
\* synthesis call that succeeded, and a save under a non-empty name that is
\* carried out puts exactly these bytes in recordings/<name>.mp3, touches no
\* other recording, makes no synthesis call and leaves the session at the
\* menu (the form) with its phrase, voice, settings, counter and artifact.
C13_SaveWritesCurrentArtifactOnly ==
    [][/\ (flow = "terminal" /\ pc' = "menu")
            => IF pc = "menu"
               THEN audio_path' = audio_path /\ synth_calls' = synth_calls
               ELSE /\ event'.op = "generate" /\ event'.outcome = "ok"
                    /\ audio_path' = <<Bytes(synth_calls', event'.call[1])>>
       /\ (flow = "reactive" /\ event'.op = "generate" /\ event'.outcome = "ok"
           /\ event'.call # <<>>)
            => audio_data' = <<Bytes(synth_calls', event'.call[1])>>
       /\ (flow = "reactive" /\ audio_data' # audio_data)
            => (event'.op = "generate" /\ event'.outcome = "ok" /\ event'.call # <<>>)
       /\ SaveDone(event')
            => /\ Staged # <<>>
               /\ \A f \in recordings' :
                    IF f.name = Strip(event'.text)
                    THEN f.data = Staged[1]
                    ELSE f \in recordings
               /\ \E f \in recordings' : f.name = Strip(event'.text)
               /\ \A f \in recordings : f.name # Strip(event'.text) => f \in recordings'
               /\ synth_calls' = synth_calls
               /\ event'.call = <<>>
               /\ flow = "terminal" => (pc' = "menu" /\ UNCHANGED sessionVars)
               /\ flow = "reactive" => (ui_page' = "form" /\ UNCHANGED appSessionVars)]_vars

\* C13 witness: with the second artifact staged a save under the name "t"
\* was carried out, and recordings holds t.mp3 with that artifact's bytes.
C13_Witness ==
    /\ flow = "terminal" /\ pc = "menu"
    /\ SaveDone(event)
    /\ audio_path # <<>> /\ audio_path[1].id = 2
    /\ recordings = {[name |-> <<"t">>, data |-> audio_path[1]]}

\* The reads of the voice catalog by app.py (get_voices at line 92 of each
\* run): a read of the cached voices before the ttl has passed and without
\* "Refresh Voices" calls no provider and returns the cached voices; a read
\* after the ttl has passed calls it once; "Refresh Voices" is a read as
\* before, then get_voices.clear() and a read that calls it once.
CachedReads ==
    (flow = "reactive" /\ voices_cache # <<>> /\ event'.op # "none")
        => IF event'.op # "refresh"
           THEN IF event'.expired
                THEN event'.fetches = 1
                ELSE event'.fetches = 0 /\ voices_cache' = voices_cache
           ELSE IF event'.expired
                THEN event'.fetches \in {1, 2}
                ELSE event'.fetches = 1

\* The reads of the voice catalog by main.py (select_voice): a listing made
\* after an earlier one has selected a voice calls no provider.  main.py
\* keeps no time; the two listings can be seconds apart.
RepeatedListingMakesNoCall ==
    (flow = "terminal" /\ event'.op = "v" /\ current_voice # DefaultVoice)
        => event'.fetches = 0

\* C14: two reads of the voice catalog within the freshness window and
\* without a forced refresh make at most one provider call; a read after
\* expiry or after a refresh makes exactly one more.
C14_CatalogReadsCached == [][CachedReads /\ RepeatedListingMakesNoCall]_vars

\* C15: without an API key no synthesis call and no catalog call is ever
\* made and no transient directory is ever created: main.py has exited
\* before its session variables are set, app.py stops every run in
\* get_client().
C15_NoKeyNoSession ==
    ~api_key
        => /\ synth_calls = 0
           /\ event.call = <<>>
           /\ event.fetches = 0
           /\ ~temp_dir
           /\ audio_path = <<>> /\ audio_data = <<>>
           /\ voices_cache = <<>>
           /\ recordings = {}
           /\ flow = "terminal" => pc \in {"start", "exited"}
           /\ flow = "reactive" => ui_page \in {"unloaded", "stopped"}
           /\ pc = "exited" => exit_cause = "no_key"

\* C15 witness: main.py was started without an API key and has exited.
C15_Witness ==
    /\ ~api_key
    /\ flow = "terminal" /\ pc = "exited" /\ exit_cause = "no_key"
    /\ event.op = "start" /\ event.outcome = "no_key"

\* Ordinal k typed at "Voice #:" makes the k-th voice listed the current
\* voice.
OrdinalSelectsKth ==
    (event'.op = "v" /\ IsInt(event'.choice)
     /\ IntTable[event'.choice] \in 1..event'.listed)
        => \E c \in Catalogs :
            /\ Len(c) = event'.listed
            /\ current_voice' = c[IntTable[event'.choice]].voice_id

\* Voice i of the catalog is the value of one of the select box's options.
VoiceSelectable(voices, i) ==
    \E label \in OptionKeys(voices) : OptionId(voices, label) = voices[i].voice_id

\* C16: position k, for 1 <= k <= the number of voices, selects the k-th
\* voice of the catalog, so that every voice of the catalog can be
\* selected, voices of the same name and category included.
C16_EveryVoiceSelectable ==
    [][/\ OrdinalSelectsKth
       /\ (flow = "reactive" /\ ui_page' = "form")
            => \A i \in DOMAIN voices_cache'[1] :
                VoiceSelectable(voices_cache'[1], i)]_vars

\* C17: an edit in which a text that is no number is entered for a field
\* leaves the session at the menu, and leaves that field as it was.
C17_NonNumericEditRejected ==
    [][event'.op = "e"
        => \A i \in 1..3 :
            EditRaises(event'.vals[i])
                => /\ pc' = "menu"
                   /\ exit_cause' = "running"
                   /\ settings'[SettingsFields[i]] = settings[SettingsFields[i]]]_vars

\* C18: an empty line at "Voice #:" leaves current_voice as it was, and an
\* empty line at a settings prompt leaves that field of settings as it was.
C18_EmptyInputKeepsValue ==
    [][/\ (event'.op = "v" /\ event'.choice = "")
            => current_voice' = current_voice
       /\ event'.op = "e"
            => \A i \in 1..3 :
                event'.vals[i] = ""
                    => settings'[SettingsFields[i]] = settings[SettingsFields[i]]]_vars

\* C18 witness: stability had been edited to 0.9; in a later edit the
\* stability prompt was left empty and 1.7 entered for style, and stability
\* is still 0.9.
C18_Witness ==
    /\ event.op = "e" /\ event.outcome = "ok"
    /\ event.vals[1] = "" /\ event.vals[3] = "1.7"
    /\ settings.stability = 90 /\ settings.style = 100
    /\ pc = "gen"

\* C19: whenever the menu of main.py waits for a choice, the transient
\* file holds bytes synthesized from the phrase, the voice and the settings
\* the session holds at that moment.
C19_MenuAudioMatchesLiveInputs ==
    (flow = "terminal" /\ pc = "menu")
        => /\ audio_path # <<>>
           /\ audio_path[1] # EmptyBytes
           /\ audio_path[1].args = CallArgs(phrase, current_voice, settings)

====
